---------------------------- MODULE Spec2Model ----------------------------
(***************************************************************************)
(* Model of the markdown renderer of the chat portal:                      *)
(*   parseMarkdown        the line-by-line block segmenter                 *)
(*   parseTable           the table detector it calls                      *)
(*   parseInlineMarkdown  the placeholder-based inline transformer         *)
(* (the "enhanced" MarkdownRenderer, src/unnamed/part_007:2142-2591).      *)
(*                                                                         *)
(* A JavaScript string is a sequence of one-character strings; line and    *)
(* table indices are 0-based as in the source, so lines[i] of the source   *)
(* is lines[i + 1] here.                                                   *)
(***************************************************************************)
EXTENDS Integers, Sequences, FiniteSets, TLC

(***************************************************************************)
(* Characters and the character classes of the regular expressions.        *)
(***************************************************************************)
Lower == {"a", "b", "c", "d", "e", "f", "g", "h", "i", "j", "k", "l", "m",
          "n", "o", "p", "q", "r", "s", "t", "u", "v", "w", "x", "y", "z"}

Upper == {"A", "B", "C", "D", "E", "F", "G", "H", "I", "J", "K", "L", "M",
          "N", "O", "P", "Q", "R", "S", "T", "U", "V", "W", "X", "Y", "Z"}

Digit == {"0", "1", "2", "3", "4", "5", "6", "7", "8", "9"}

\* the word characters without the underscore
WordCharNoUnderscore == Lower \cup Upper \cup Digit

\* \w of a JavaScript regular expression
WordChar == Lower \cup Upper \cup Digit \cup {"_"}

\* \s of a JavaScript regular expression, and what String.trim removes
Space == {" ", "\t"}

\* [a-zA-Z0-9._%+-] : the local part of an e-mail address
EmailLocalChar == Lower \cup Upper \cup Digit \cup {".", "_", "%", "+", "-"}

\* [a-zA-Z0-9.-] : the domain of an e-mail address
EmailDomainChar == Lower \cup Upper \cup Digit \cup {".", "-"}

\* [\s\-|:] : the characters of a table separator line
SeparatorChar == Space \cup {"-", "|", ":"}

\* [-*_] : the characters of a horizontal rule
RuleChar == {"-", "*", "_"}

\* the backtick character (a TLA+ string literal cannot hold one)
Backtick == "BACKTICK"

\* [-*+] : the bullet of an unordered list item
BulletChar == {"-", "*", "+"}

(***************************************************************************)
(* String primitives.                                                      *)
(***************************************************************************)
Max(a, b) == IF a >= b THEN a ELSE b

\* s.slice(n): s without its first n characters
Slice(s, n) == IF n >= Len(s) THEN <<>> ELSE SubSeq(s, n + 1, Len(s))

\* s.startsWith(p)
StartsWith(s, p) == Len(s) >= Len(p) /\ SubSeq(s, 1, Len(p)) = p

\* s.endsWith(p)
EndsWith(s, p) == Len(s) >= Len(p) /\ SubSeq(s, Len(s) - Len(p) + 1, Len(s)) = p

\* p occurs in s at (1-based) position i
OccursAt(s, p, i) == i >= 1 /\ i + Len(p) - 1 <= Len(s) /\ SubSeq(s, i, i + Len(p) - 1) = p

\* s.includes(p)
Includes(s, p) == \E i \in 1..Len(s) : OccursAt(s, p, i)

RECURSIVE TrimStart(_)
TrimStart(s) == IF s # <<>> /\ Head(s) \in Space THEN TrimStart(Tail(s)) ELSE s

RECURSIVE TrimEnd(_)
TrimEnd(s) == IF s # <<>> /\ s[Len(s)] \in Space THEN TrimEnd(SubSeq(s, 1, Len(s) - 1)) ELSE s

\* s.trim()
Trim(s) == TrimEnd(TrimStart(s))

Min(S) == CHOOSE x \in S : \A y \in S : x <= y

\* the first index j >= i with s[j] = c, or 0
FirstAt(s, c, i) ==
    LET At == {j \in i..Len(s) : s[j] = c}
    IN  IF At = {} THEN 0 ELSE Min(At)

\* s.split(c) for a one-character separator c, from position i on: the
\* piece up to the next c and the pieces after it; always at least one piece
RECURSIVE SplitFrom(_, _, _)
SplitFrom(s, c, i) ==
    IF FirstAt(s, c, i) = 0 THEN <<SubSeq(s, i, Len(s))>>
    ELSE <<SubSeq(s, i, FirstAt(s, c, i) - 1)>> \o SplitFrom(s, c, FirstAt(s, c, i) + 1)

Split(s, c) == SplitFrom(s, c, 1)

\* a.join(c) for a one-character separator c
RECURSIVE Join(_, _)
Join(a, c) ==
    IF a = <<>> THEN <<>>
    ELSE IF Len(a) = 1 THEN a[1]
    ELSE a[1] \o <<c>> \o Join(Tail(a), c)

\* the decimal digits of a natural number, as a template literal prints it
RECURSIVE ToDecimal(_)
ToDecimal(n) ==
    LET d == <<"0", "1", "2", "3", "4", "5", "6", "7", "8", "9">>[(n % 10) + 1]
    IN  IF n < 10 THEN <<d>> ELSE Append(ToDecimal(n \div 10), d)

DigitValue(c) ==
    CASE c = "0" -> 0 [] c = "1" -> 1 [] c = "2" -> 2 [] c = "3" -> 3 [] c = "4" -> 4
      [] c = "5" -> 5 [] c = "6" -> 6 [] c = "7" -> 7 [] c = "8" -> 8 [] c = "9" -> 9

\* Number.parseInt of a string of decimal digits
RECURSIVE ParseInt(_)
ParseInt(ds) ==
    IF ds = <<>> THEN 0
    ELSE 10 * ParseInt(SubSeq(ds, 1, Len(ds) - 1)) + DigitValue(ds[Len(ds)])

\* the end (last index) of the longest run of characters of class cls that
\* starts at i; i - 1 when s[i] is not in cls
RunEnd(s, cls, i) ==
    LET Out == {j \in i..Len(s) : s[j] \notin cls}
    IN  IF i > Len(s) THEN i - 1 ELSE IF Out = {} THEN Len(s) ELSE Min(Out) - 1

\* \b : a word boundary between s[i - 1] and s[i]
IsWordAt(s, i) == i >= 1 /\ i <= Len(s) /\ s[i] \in WordChar

WordBoundary(s, i) == IsWordAt(s, i - 1) # IsWordAt(s, i)


\* the end of the longest run of characters not in cls that starts at i
RunEndNot(s, cls, i) ==
    LET In == {j \in i..Len(s) : s[j] \in cls}
    IN  IF i > Len(s) THEN i - 1 ELSE IF In = {} THEN Len(s) ELSE Min(In) - 1

\* $ without the m flag: the position after the last character
AtEnd(s, p) == p = Len(s) + 1

(***************************************************************************)
(* parseInlineMarkdown: the regular expressions of the substitution        *)
(* passes.  A match is [ok, end, text, url]: end is the index of the last  *)
(* matched character, text and url are the capture groups.                 *)
(***************************************************************************)
NoMatch == [ok |-> FALSE, end |-> 0, text |-> <<>>, url |-> <<>>]

Matched(e, t, u) == [ok |-> TRUE, end |-> e, text |-> t, url |-> u]

\* d{n}([^d]+)d{n} at i, for a delimiter character d repeated n times:
\* the group is the longest run without d, and must be followed by d{n}
DelimMatch(s, i, d, n) ==
    LET j == FirstAt(s, d, i + n)
    IN  IF /\ \A k \in 0..(n - 1) : i + k <= Len(s) /\ s[i + k] = d
           /\ j >= i + n + 1
           /\ \A k \in 0..(n - 1) : j + k <= Len(s) /\ s[j + k] = d
        THEN Matched(j + n - 1, SubSeq(s, i + n, j - 1), <<>>)
        ELSE NoMatch

\* /`([^`]+)`/
CodeMatch(s, i) == DelimMatch(s, i, Backtick, 1)

\* /~~([^~]+)~~/
StrikeMatch(s, i) == DelimMatch(s, i, "~", 2)

\* /\*\*([^*]+)\*\*/
BoldMatch(s, i) == DelimMatch(s, i, "*", 2)

\* /\*([^*]+)\*/
ItalicMatch(s, i) == DelimMatch(s, i, "*", 1)

\* /\[([^\]]+)\]$$([^)]+)$$/ : after the closing bracket the expression
\* asserts the end of the input twice, then wants one or more characters
\* other than ")" and the end of the input twice more
LinkMatch(s, i) ==
    LET j == FirstAt(s, "]", i + 1)
        e == RunEndNot(s, {")"}, j + 1)
    IN  IF /\ s[i] = "["
           /\ j >= i + 2
           /\ AtEnd(s, j + 1)
           /\ e >= j + 1
           /\ AtEnd(s, e + 1)
        THEN Matched(e, SubSeq(s, i + 1, j - 1), SubSeq(s, j + 1, e))
        ELSE NoMatch

\* /\b([a-zA-Z0-9._%+-]+@[a-zA-Z0-9.-]+\.[a-zA-Z]{2,})\b/ : the local part
\* is the longest run of its class and "@" follows; the domain gives back
\* characters until a "." is followed by two or more letters and a word
\* boundary (the longest domain that works is taken)
EmailMatch(s, i) ==
    LET le == RunEnd(s, EmailLocalChar, i)
        p  == le + 2
        de == RunEnd(s, EmailDomainChar, p)
        TldEnd(q) == RunEnd(s, Lower \cup Upper, q + 1)
        Dots == {q \in (p + 1)..de :
                    /\ s[q] = "."
                    /\ TldEnd(q) >= q + 2
                    /\ ~IsWordAt(s, TldEnd(q) + 1)}
        q == CHOOSE x \in Dots : \A y \in Dots : y <= x
    IN  IF /\ WordBoundary(s, i)
           /\ le >= i
           /\ le + 1 <= Len(s)
           /\ s[le + 1] = "@"
           /\ Dots # {}
        THEN Matched(TldEnd(q), SubSeq(s, i, TldEnd(q)), <<>>)
        ELSE NoMatch

\* /\b(https?:\/\/[^\s]+)/ : everything up to the next white space
UrlMatch(s, i) ==
    LET p == IF OccursAt(s, <<"h", "t", "t", "p", "s">>, i) THEN i + 5 ELSE i + 4
        e == RunEndNot(s, Space, p + 3)
    IN  IF /\ WordBoundary(s, i)
           /\ OccursAt(s, <<"h", "t", "t", "p">>, i)
           /\ OccursAt(s, <<":", "/", "/">>, p)
           /\ e >= p + 3
        THEN Matched(e, SubSeq(s, i, e), <<>>)
        ELSE NoMatch

\* the number of consecutive groups ,\d{3} that start at p
RECURSIVE CommaGroups(_, _)
CommaGroups(s, p) ==
    IF /\ p + 3 <= Len(s)
       /\ s[p] = ","
       /\ s[p + 1] \in Digit /\ s[p + 2] \in Digit /\ s[p + 3] \in Digit
    THEN 1 + CommaGroups(s, p + 4)
    ELSE 0

\* /\b(\d{1,3}(?:,\d{3})*(?:\.\d{2})?)\b/ : the candidates in the order the
\* backtracking matcher tries them (3, 2, 1 leading digits; most groups
\* first; with the fraction before without); the first to end at a word
\* boundary is the match
NumberMatch(s, i) ==
    LET Heads == {n \in 1..3 : \A k \in 0..(n - 1) : i + k <= Len(s) /\ s[i + k] \in Digit}
        HasFrac(q) == /\ q + 2 <= Len(s)
                      /\ s[q] = "."
                      /\ s[q + 1] \in Digit /\ s[q + 2] \in Digit
        Cands == {c \in [n : Heads, k : 0..Len(s), f : BOOLEAN] :
                    /\ c.k <= CommaGroups(s, i + c.n)
                    /\ c.f => HasFrac(i + c.n + 4 * c.k)}
        EndOf(c) == IF c.f THEN i + c.n + 4 * c.k + 2 ELSE i + c.n + 4 * c.k - 1
        Good == {c \in Cands : ~IsWordAt(s, EndOf(c) + 1)}
        Rank(c) == (3 - c.n) * 2 * (Len(s) + 1) + (Len(s) - c.k) * 2 + (IF c.f THEN 0 ELSE 1)
        best == CHOOSE c \in Good : \A o \in Good : Rank(c) <= Rank(o)
    IN  IF WordBoundary(s, i) /\ Good # {}
        THEN Matched(EndOf(best), SubSeq(s, i, EndOf(best)), <<>>)
        ELSE NoMatch

\* the code pass moved behind the emphasis passes
PassOrderCodeLate == <<"strike", "bold", "italic", "code", "link", "email", "url", "number">>

\* the passes, in the order the function body applies them
PassOrder == <<"code", "strike", "bold", "italic", "link", "email", "url", "number">>

MatchAt(pass, s, i) ==
    CASE pass = "code"   -> CodeMatch(s, i)
      [] pass = "strike" -> StrikeMatch(s, i)
      [] pass = "bold"   -> BoldMatch(s, i)
      [] pass = "italic" -> ItalicMatch(s, i)
      [] pass = "link"   -> LinkMatch(s, i)
      [] pass = "email"  -> EmailMatch(s, i)
      [] pass = "url"    -> UrlMatch(s, i)
      [] pass = "number" -> NumberMatch(s, i)

\* the name a pass writes into its placeholder
TagOf(pass) ==
    CASE pass = "code"   -> <<"C", "O", "D", "E">>
      [] pass = "strike" -> <<"S", "T", "R", "I", "K", "E">>
      [] pass = "bold"   -> <<"B", "O", "L", "D">>
      [] pass = "italic" -> <<"I", "T", "A", "L", "I", "C">>
      [] pass = "link"   -> <<"L", "I", "N", "K">>
      [] pass = "email"  -> <<"E", "M", "A", "I", "L">>
      [] pass = "url"    -> <<"U", "R", "L">>
      [] pass = "number" -> <<"N", "U", "M", "B", "E", "R">>

\* `__TAG_${key}__`
Placeholder(pass, k) == <<"_", "_">> \o TagOf(pass) \o <<"_">> \o ToDecimal(k) \o <<"_", "_">>

\* the element a pass records: its kind, its child text and its href
Node(pass, m) ==
    [type |-> pass,
     text |-> m.text,
     url  |-> CASE pass = "link"  -> m.url
                [] pass = "email" -> <<"m", "a", "i", "l", "t", "o", ":">> \o m.text
                [] pass = "url"   -> m.text
                [] OTHER          -> <<>>]

\* a string pushed as it is (plain text)
TextNode(t) == [type |-> "text", text |-> t, url |-> <<>>]

\* the first position j >= i at which the expression of the pass matches, or 0
NextMatch(pass, s, i) ==
    LET At == {j \in i..Len(s) : MatchAt(pass, s, j).ok}
    IN  IF At = {} THEN 0 ELSE Min(At)

\* currentText.replace(/re/g, callback) from position i on: acc is the
\* replaced text so far with the recorded parts and the counter key; the
\* text up to the next match is copied, the match is replaced by its
\* placeholder, and the search goes on behind the match
RECURSIVE ReplaceFrom(_, _, _, _)
ReplaceFrom(pass, s, i, acc) ==
    LET j == NextMatch(pass, s, i)
        m == MatchAt(pass, s, j)
    IN  IF j = 0 THEN [acc EXCEPT !.text = @ \o SubSeq(s, i, Len(s))]
        ELSE ReplaceFrom(pass, s, m.end + 1,
                         [text  |-> acc.text \o SubSeq(s, i, j - 1) \o Placeholder(pass, acc.key),
                          parts |-> Append(acc.parts, Node(pass, m)),
                          key   |-> acc.key + 1])

\* one substitution pass over [text, parts, key]
ApplyPass(pass, st) == ReplaceFrom(pass, st.text, 1, [text |-> <<>>, parts |-> st.parts, key |-> st.key])

(***************************************************************************)
(* parseInlineMarkdown: the final split and reassembly.                    *)
(***************************************************************************)
SplitTags == <<"code", "bold", "italic", "link", "email", "url", "strike", "number">>

\* /(__(?:CODE|BOLD|ITALIC|LINK|EMAIL|URL|STRIKE|NUMBER)_\d+__)/ at i:
\* the index of the last character of the token, or 0
TokenEnd(s, i) ==
    LET Ends == {e \in i..Len(s) : \E x \in 1..Len(SplitTags) :
                    LET t == TagOf(SplitTags[x])
                        d == i + 2 + Len(t) + 1
                        r == RunEnd(s, Digit, d)
                    IN  /\ OccursAt(s, <<"_", "_">>, i)
                        /\ OccursAt(s, t, i + 2)
                        /\ OccursAt(s, <<"_">>, i + 2 + Len(t))
                        /\ r >= d
                        /\ OccursAt(s, <<"_", "_">>, r + 1)
                        /\ e = r + 2}
    IN  IF Ends = {} THEN 0 ELSE CHOOSE e \in Ends : TRUE

\* currentText.split(/(token)/g) from position i on: text, token, text,
\* ..., text
RECURSIVE SplitTokensFrom(_, _)
SplitTokensFrom(s, i) ==
    LET At == {j \in i..Len(s) : TokenEnd(s, j) > 0}
        j  == Min(At)
    IN  IF At = {} THEN <<SubSeq(s, i, Len(s))>>
        ELSE <<SubSeq(s, i, j - 1), SubSeq(s, j, TokenEnd(s, j))>>
                \o SplitTokensFrom(s, TokenEnd(s, j) + 1)

SplitTokens(s) == SplitTokensFrom(s, 1)

\* the start of the run of digits that ends at e (e + 1 if s[e] is no digit)
RunStart(s, e) ==
    LET Out == {j \in 1..e : s[j] \notin Digit}
    IN  IF Out = {} THEN 1 ELSE (CHOOSE x \in Out : \A y \in Out : y <= x) + 1

\* Number.parseInt(part.match(/_(\d+)__$/)?.[1] || "0")
ComponentIndex(part) ==
    LET e == Len(part) - 2
        b == RunStart(part, e)
    IN  IF /\ EndsWith(part, <<"_", "_">>)
           /\ b <= e
           /\ b - 1 >= 1
           /\ part[b - 1] = "_"
        THEN ParseInt(SubSeq(part, b, e))
        ELSE 0

\* textParts.forEach: the body of the callback for one part
PushPart(final, part, parts) ==
    IF StartsWith(part, <<"_", "_">>) /\ EndsWith(part, <<"_", "_">>)
    THEN IF ComponentIndex(part) < Len(parts)
         THEN Append(final, parts[ComponentIndex(part) + 1])
         ELSE final
    ELSE IF part # <<>> THEN Append(final, TextNode(part))
    ELSE final

RECURSIVE Reassemble(_, _, _)
Reassemble(textParts, parts, final) ==
    IF textParts = <<>> THEN final
    ELSE Reassemble(Tail(textParts), parts, PushPart(final, Head(textParts), parts))

\* finalParts.length > 0 ? finalParts : text
InlineResult(final, text) == IF Len(final) > 0 THEN final ELSE <<TextNode(text)>>

RECURSIVE ApplyPasses(_, _, _)
ApplyPasses(order, k, st) ==
    IF k > Len(order) THEN st ELSE ApplyPasses(order, k + 1, ApplyPass(order[k], st))

\* parseInlineMarkdown(text) as a function of its argument
parseInlineMarkdown(text) ==
    LET st == ApplyPasses(PassOrder, 1, [text |-> text, parts |-> <<>>, key |-> 0])
    IN  InlineResult(Reassemble(SplitTokens(st.text), st.parts, <<>>), text)

(***************************************************************************)
(* parseMarkdown: the patterns that classify one trimmed line.             *)
(***************************************************************************)
Fence == <<Backtick, Backtick, Backtick>>

\* trimmedLine.startsWith("```")
IsFence(t) == StartsWith(t, Fence)

\* the four startsWith tests for "#### ", "### ", "## " and "# ", longest first
HeadingLevel(t) ==
    IF StartsWith(t, <<"#", "#", "#", "#", " ">>) THEN 4
    ELSE IF StartsWith(t, <<"#", "#", "#", " ">>) THEN 3
    ELSE IF StartsWith(t, <<"#", "#", " ">>) THEN 2
    ELSE IF StartsWith(t, <<"#", " ">>) THEN 1
    ELSE 0

\* /^[-*_]{3,}$/
IsRule(t) == Len(t) >= 3 /\ \A k \in 1..Len(t) : t[k] \in RuleChar

\* trimmedLine.startsWith("> ")
IsQuote(t) == StartsWith(t, <<">", " ">>)

\* /^[\s]*[-*+]\s/ : the index of the white space after the bullet, or 0
UnorderedEnd(t) ==
    LET b == RunEnd(t, Space, 1) + 1
    IN  IF b + 1 <= Len(t) /\ t[b] \in BulletChar /\ t[b + 1] \in Space THEN b + 1 ELSE 0

\* /^[\s]*\d+\.\s/ : the index of the white space after the period, or 0
OrderedEnd(t) ==
    LET b == RunEnd(t, Space, 1) + 1
        e == RunEnd(t, Digit, b)
    IN  IF e >= b /\ e + 2 <= Len(t) /\ t[e + 1] = "." /\ t[e + 2] \in Space THEN e + 2 ELSE 0

\* codeLanguage.toUpperCase()
UpperOf(c) ==
    LET lo == <<"a", "b", "c", "d", "e", "f", "g", "h", "i", "j", "k", "l", "m",
                "n", "o", "p", "q", "r", "s", "t", "u", "v", "w", "x", "y", "z">>
        up == <<"A", "B", "C", "D", "E", "F", "G", "H", "I", "J", "K", "L", "M",
                "N", "O", "P", "Q", "R", "S", "T", "U", "V", "W", "X", "Y", "Z">>
    IN  IF c \in Lower THEN up[CHOOSE k \in 1..26 : lo[k] = c] ELSE c

ToUpperCase(s) == [k \in 1..Len(s) |-> UpperOf(s[k])]

(***************************************************************************)
(* The blocks pushed on elements.  A block holds each text it hands to     *)
(* parseInlineMarkdown (text, items, head, body); what is displayed is     *)
(* parseInlineMarkdown of that text, see Rendered.                         *)
(***************************************************************************)
HeadingBlock(n, t) == [type |-> "heading", level |-> n, text |-> t]

RuleBlock == [type |-> "hr"]

QuoteBlock(t) == [type |-> "quote", text |-> t]

ListBlock(items) == [type |-> "ul", items |-> items]

OrderedListBlock(items) == [type |-> "ol", items |-> items]

SpacerBlock == [type |-> "space"]

ParagraphBlock(t) == [type |-> "p", text |-> t]

\* the language label is shown in upper case when there is one; the code
\* is the buffered lines joined by newlines and is shown as it is
CodeBlock(content, language) ==
    [type |-> "pre", label |-> ToUpperCase(language), code |-> Join(content, "\n")]

\* the children of a block that come from parseInlineMarkdown
Rendered(block) ==
    CASE block.type \in {"heading", "quote", "p"} -> <<parseInlineMarkdown(block.text)>>
      [] block.type \in {"ul", "ol"} ->
            [k \in 1..Len(block.items) |-> parseInlineMarkdown(block.items[k])]
      [] block.type = "table" ->
            [k \in 1..Len(block.head) |-> parseInlineMarkdown(block.head[k])]
            \o [k \in 1..Len(block.body) |->
                  [j \in 1..Len(block.body[k]) |-> parseInlineMarkdown(block.body[k][j])]]
      [] OTHER -> <<>>

(***************************************************************************)
(* The flush helpers, on a = [elements, currentList, currentOrderedList]   *)
(* and on c = [elements, codeBlockContent, codeLanguage].                  *)
(***************************************************************************)
\* the ordered list is dropped and not emitted
flushOrderedListDropped(a) == [a EXCEPT !.currentOrderedList = <<>>]

\* the unordered list is left open
flushListNone(a) == a

flushList(a) ==
    IF Len(a.currentList) > 0
    THEN [a EXCEPT !.elements = Append(@, ListBlock(a.currentList)), !.currentList = <<>>]
    ELSE a

flushOrderedList(a) ==
    IF Len(a.currentOrderedList) > 0
    THEN [a EXCEPT !.elements = Append(@, OrderedListBlock(a.currentOrderedList)),
                   !.currentOrderedList = <<>>]
    ELSE a

\* the unordered list alone is flushed
flushAllListsUnorderedOnly(a) == flushList(a)

flushAllLists(a) == flushOrderedList(flushList(a))

flushCodeBlock(c) ==
    IF Len(c.codeBlockContent) > 0
    THEN [c EXCEPT !.elements = Append(@, CodeBlock(c.codeBlockContent, c.codeLanguage)),
                   !.codeBlockContent = <<>>,
                   !.codeLanguage = <<>>]
    ELSE c

(***************************************************************************)
(* parseTable.                                                             *)
(***************************************************************************)
\* /^[\s\-|:]+$/
IsSeparator(line) == Len(line) >= 1 /\ \A k \in 1..Len(line) : line[k] \in SeparatorChar

\* the while loops that shift and pop the empty cells at both ends
RECURSIVE DropEmptyStart(_)
DropEmptyStart(cells) ==
    IF Len(cells) > 0 /\ cells[1] = <<>> THEN DropEmptyStart(Tail(cells)) ELSE cells

RECURSIVE DropEmptyEnd(_)
DropEmptyEnd(cells) ==
    IF Len(cells) > 0 /\ cells[Len(cells)] = <<>>
    THEN DropEmptyEnd(SubSeq(cells, 1, Len(cells) - 1))
    ELSE cells

\* line.split("|").map((cell) => cell.trim()), then the two loops
RowCells(line) ==
    LET raw == Split(line, "|")
    IN  DropEmptyEnd(DropEmptyStart([k \in 1..Len(raw) |-> Trim(raw[k])]))

RECURSIVE MaxRowLength(_)
MaxRowLength(rows) == IF rows = <<>> THEN 0 ELSE Max(Len(Head(rows)), MaxRowLength(Tail(rows)))

\* the rows accepted before are left out of the maximum
MaxColsOwn(tableRows, cells) == Max(2, Len(cells))

\* Math.max(2, ...tableRows.map((row) => row.length), cells.length)
MaxCols(tableRows, cells) == Max(2, Max(MaxRowLength(tableRows), Len(cells)))

\* while (cells.length < maxCols) cells.push("")
RECURSIVE PadCells(_, _)
PadCells(cells, maxCols) ==
    IF Len(cells) < maxCols THEN PadCells(Append(cells, <<>>), maxCols) ELSE cells

\* any line taken as table-like once a row has been accepted
TableLikeAnyContinuation(line, tableRows) == Includes(line, <<"|">>) \/ Len(tableRows) > 0

\* line.includes("|") || (line.includes("---") && tableRows.length > 0)
TableLike(line, tableRows) ==
    Includes(line, <<"|">>) \/ (Includes(line, <<"-", "-", "-">>) /\ Len(tableRows) > 0)

\* cells.length >= 2 || (cells.length >= 1 && tableRows.length > 0)
RowAccepted(cells, tableRows) ==
    Len(cells) >= 2 \/ (Len(cells) >= 1 /\ Len(tableRows) > 0)

\* the loop test off by one: the scan reads lines[lines.length]
ScanGuardOffByOne(ls, tableIndex) == tableIndex <= Len(ls)

\* while (tableIndex < lines.length)
ScanGuard(ls, tableIndex) == tableIndex < Len(ls)

\* the scan loop from tableIndex on; threw is the TypeError of calling
\* trim on lines[tableIndex] when that is undefined
RECURSIVE ScanTable(_, _, _, _)
ScanTable(ls, tableIndex, tableRows, hasValidTable) ==
    LET stop == [tableRows |-> tableRows, tableIndex |-> tableIndex,
                 hasValidTable |-> hasValidTable, threw |-> FALSE]
    IN  IF ~ScanGuard(ls, tableIndex) THEN stop
        ELSE IF tableIndex + 1 > Len(ls) THEN [stop EXCEPT !.threw = TRUE]
        ELSE LET line  == Trim(ls[tableIndex + 1])
                 cells == RowCells(line)
             IN  IF line = <<>> THEN ScanTable(ls, tableIndex + 1, tableRows, hasValidTable)
                 ELSE IF TableLike(line, tableRows)
                 THEN IF IsSeparator(line)
                      THEN ScanTable(ls, tableIndex + 1, tableRows, hasValidTable)
                      ELSE IF RowAccepted(cells, tableRows)
                      THEN ScanTable(ls, tableIndex + 1,
                                     Append(tableRows, PadCells(cells, MaxCols(tableRows, cells))),
                                     TRUE)
                      ELSE stop
                 ELSE stop

\* /^\d+$/
AllDigits(cell) == Len(cell) >= 1 /\ \A k \in 1..Len(cell) : cell[k] \in Digit

\* the first row is the header whatever its cells are
IsHeaderRowAlways(firstRow) == TRUE

\* firstRow.some((cell) => cell.length > 0 && !cell.match(/^\d+$/))
IsHeaderRow(firstRow) == \E k \in 1..Len(firstRow) : Len(firstRow[k]) > 0 /\ ~AllDigits(firstRow[k])

\* header || `Column ${cellIndex + 1}`
HeaderText(header, cellIndex) ==
    IF header # <<>> THEN header
    ELSE <<"C", "o", "l", "u", "m", "n", " ">> \o ToDecimal(cellIndex + 1)

\* cell || "-"
CellText(cell) == IF cell # <<>> THEN cell ELSE <<"-">>

\* the table pushed on elements: headerRow and dataRows are the rows it is
\* built from, head and body the texts of its th and td cells
TableBlock(tableRows) ==
    LET isHeaderRow == IsHeaderRow(tableRows[1])
        headerRow   == IF isHeaderRow THEN tableRows[1] ELSE <<>>
        dataRows    == IF isHeaderRow THEN Tail(tableRows) ELSE tableRows
    IN  [type      |-> "table",
         hasHeader |-> isHeaderRow,
         headerRow |-> headerRow,
         dataRows  |-> dataRows,
         head      |-> [k \in 1..Len(headerRow) |-> HeaderText(headerRow[k], k - 1)],
         body      |-> [r \in 1..Len(dataRows) |->
                          [k \in 1..Len(dataRows[r]) |-> CellText(dataRows[r][k])]]]

\* the index at which the scan stopped is returned, not the number of lines
parseTableReturnsIndex(ls, startIndex) ==
    LET r == ScanTable(ls, startIndex, <<>>, FALSE)
        found == ~r.threw /\ r.hasValidTable /\ Len(r.tableRows) > 0
    IN  [threw    |-> r.threw,
         pushed   |-> IF found THEN <<TableBlock(r.tableRows)>> ELSE <<>>,
         returned |-> IF found THEN r.tableIndex ELSE 0]

\* the lines scanned are returned also when no row was accepted
parseTableCountsScanned(ls, startIndex) ==
    LET r == ScanTable(ls, startIndex, <<>>, FALSE)
        found == ~r.threw /\ r.hasValidTable /\ Len(r.tableRows) > 0
    IN  [threw    |-> r.threw,
         pushed   |-> IF found THEN <<TableBlock(r.tableRows)>> ELSE <<>>,
         returned |-> r.tableIndex - startIndex]

\* parseTable(startIndex): what it pushes on elements (one table or
\* nothing), the number it returns, and whether it threw
parseTable(ls, startIndex) ==
    LET r == ScanTable(ls, startIndex, <<>>, FALSE)
        found == ~r.threw /\ r.hasValidTable /\ Len(r.tableRows) > 0
    IN  [threw    |-> r.threw,
         pushed   |-> IF found THEN <<TableBlock(r.tableRows)>> ELSE <<>>,
         returned |-> IF found THEN r.tableIndex - startIndex ELSE 0]

(***************************************************************************)
(* The inputs.  A text is written as its lines; Text joins them with       *)
(* newlines, and parseMarkdown splits the text again.                      *)
(***************************************************************************)
\* the longest input, in lines, that is enumerated from LinePool
MaxLines == 3

\* the longest inline text that is enumerated from InlineAlphabet
MaxLen == 4

Text(ls) == Join(ls, "\n")

L_Blank     == <<>>
L_FenceJs   == <<Backtick, Backtick, Backtick, "j", "s">>
L_Fence     == <<Backtick, Backtick, Backtick>>
L_HeadPipe  == <<"#", "#", " ", "T", "|", "x">>
L_Item      == <<"-", " ", "a">>
L_Ordered   == <<"1", ".", " ", "b">>
L_Row2      == <<"a", " ", "|", " ", "b">>
L_Row3      == <<"c", "|", "d", "|", "e">>
L_Sep       == <<"|", "-", "-", "-", "|">>
L_OneCell   == <<"B", "o", "b", " ", "|">>
L_Para      == <<" ", "*", "p", "*", " ">>
L_Rule      == <<"-", "-", "-">>
L_Quote     == <<">", " ", "q">>
L_Spaces    == <<" ", "\t">>
L_Title     == <<"#", "#", " ", "T", "i", "t", "l", "e">>
L_One       == <<"-", " ", "o", "n", "e">>
L_Two       == <<"-", " ", "t", "w", "o">>
L_NameScore == <<"N", "a", "m", "e", " ", "|", " ", "S", "c", "o", "r", "e">>
L_Alice5    == <<"A", "l", "i", "c", "e", " ", "|", " ", "5">>
L_Bob       == <<"B", "o", "b">>
L_H4        == <<"#", "#", "#", "#", " ", "d">>
L_H3        == <<"#", "#", "#", " ", "c">>
L_H1        == <<"#", " ", "a">>
L_Digits    == <<"1", "|", "2">>
L_QuotePipe == <<">", " ", "q", "|", "r">>
L_ItemPipe  == <<"-", " ", "i", "|", "j">>

LinePool == {L_Blank, L_FenceJs, L_Fence, L_HeadPipe, L_Item, L_Ordered,
             L_Row2, L_Row3, L_Sep, L_OneCell, L_Para}

\* the texts that need a line outside LinePool or more than MaxLines lines
Scenarios ==
    {<<L_Title, L_One, L_Two, L_Blank>>,
     <<L_NameScore, L_Alice5, L_Bob, L_Blank>>,
     <<L_NameScore, L_Alice5, L_OneCell, L_Blank>>,
     <<L_Row2, L_Rule, L_Row3, L_Blank, L_Para>>,
     <<L_Para, L_Blank, L_Blank, L_Spaces, L_Para>>,
     <<L_Spaces, L_Blank, L_Spaces>>,
     <<L_Quote, L_Rule, L_H4, L_H3, L_H1>>,
     <<L_FenceJs, L_Spaces, L_Title, L_Row2, L_Fence, L_Para>>,
     <<L_Item, L_FenceJs, L_Para, L_Ordered>>,
     <<L_Digits, L_Row2, L_Blank, L_Sep, L_Quote>>,
     <<L_Item, L_Row2, L_Sep, L_Row3, L_FenceJs, L_Para, L_Fence, L_Blank, L_Para>>,
     <<L_Row2, L_HeadPipe, L_QuotePipe, L_ItemPipe>>,
     <<L_ItemPipe, L_QuotePipe, L_HeadPipe, L_Row2>>}

LineSeqs == UNION {[1..n -> LinePool] : n \in 1..MaxLines}

Contents == {Text(ls) : ls \in LineSeqs \cup Scenarios}

\* the characters the short inline texts are enumerated from
InlineAlphabet == {Backtick, "*", "~", "a", "1"}

InlineStrings == UNION {[1..n -> InlineAlphabet] : n \in 0..MaxLen}

T_Contact ==
    <<"C", "o", "n", "t", "a", "c", "t", " ", "*", "J", "a", "n", "e", "*", " ", "a",
      "t", " ", "j", "a", "n", "e", "@", "c", "o", ".", "c", "o", "m", " ", "o", "r",
      " ", "s", "e", "e", " ", "[", "d", "o", "c", "s", "]", "(", "h", "t", "t", "p",
      ":", "/", "/", "x", ".", "c", "o", ")">>

T_Total ==
    <<"T", "o", "t", "a", "l", ":", " ", Backtick, "4", "2", Backtick, " ", "i", "t",
      "e", "m", "s", ",", " ", "1", ",", "2", "5", "0", " ", "u", "n", "i", "t", "s">>

T_CodeBold ==
    <<Backtick, "*", "*", "b", "o", "l", "d", "-", "l", "o", "o", "k", "i", "n", "g",
      " ", "b", "u", "t", " ", "c", "o", "d", "e", "*", "*", Backtick>>

T_CodeStrike ==
    <<Backtick, "~", "~", "a", "~", "~", Backtick>>

T_CodeItalic ==
    <<Backtick, "*", "a", "*", " ", "1", "2", Backtick>>

T_ItalicBold ==
    <<"*", "a", " ", "*", "*", "b", "*", "*", " ", "c", "*">>

T_ItalicCode ==
    <<"*", Backtick, "a", Backtick, "*">>

T_StrikeCode ==
    <<"~", "~", "a", " ", Backtick, "b", Backtick, " ", "c", "~", "~">>

T_CodeEmail ==
    <<Backtick, "a", Backtick, "@", "b", ".", "c", "o">>

T_UrlCode ==
    <<"h", "t", "t", "p", ":", "/", "/", Backtick, "a", Backtick, " ", "x">>

T_Literal ==
    <<"x", " ", "_", "_", "B", "O", "L", "D", "_", "0", "_", "_">>

T_CodeLiteral ==
    <<Backtick, "c", Backtick, " ", "_", "_", "B", "O", "L", "D", "_", "0", "_", "_">>

T_Dunder ==
    <<"_", "_", "i", "n", "i", "t", "_", "_", Backtick, "a", Backtick>>

T_Link ==
    <<"[", "d", "o", "c", "s", "]", "(", "h", "t", "t", "p", ":", "/", "/", "x", ".",
      "c", "o", ")">>

T_LinkText ==
    <<"s", "e", "e", " ", "[", "a", "]", "(", "b", ")", " ", "n", "o", "w">>

T_Stray ==
    <<"a", " ", "*", " ", "b", " ", "~", " ", "c", " ", Backtick, " ", "d">>

T_Year ==
    <<"i", "n", " ", "2", "0", "2", "4">>

T_Money ==
    <<"1", ",", "2", "5", "0", ".", "7", "5", " ", "a", "n", "d", " ", "3", ".", "1",
      "4", "1", "5", "9">>

T_Mixed ==
    <<"*", "*", "b", "*", "*", " ", "*", "i", "*", " ", "~", "~", "s", "~", "~", " ",
      Backtick, "c", Backtick, " ", "a", "@", "b", ".", "c", "o", " ", "h", "t", "t",
      "p", ":", "/", "/", "u", " ", "1", "2">>

T_Collide ==
    <<"_", "_", "C", "O", "D", "E", "_", "1", Backtick, "a", Backtick>>

InlineScenarios ==
    {T_Contact,
     T_Collide,
     T_Total,
     T_CodeBold,
     T_CodeStrike,
     T_CodeItalic,
     T_ItalicBold,
     T_ItalicCode,
     T_StrikeCode,
     T_CodeEmail,
     T_UrlCode,
     T_Literal,
     T_CodeLiteral,
     T_Dunder,
     T_Link,
     T_LinkText,
     T_Stray,
     T_Year,
     T_Money,
     T_Mixed}

(***************************************************************************)
(* State.  parseMarkdown: content is its argument, index the index of the  *)
(* forEach callback about to run, pc its position (run, done, error; idle  *)
(* when it is not running), the others are its local variables.            *)
(* fenceOpenAt is a history variable, not a variable of the program: the   *)
(* index of the line that opened the fence being read.                     *)
(* parseInlineMarkdown: text is its argument, ipc its position (pass,      *)
(* split, join, done; idle when it is not running), pass the index in      *)
(* PassOrder of the next pass, result what it returns, the others are its  *)
(* local variables.                                                        *)
(* calls holds the local variables of the calls of parseMarkdown that are   *)
(* in progress side by side, one record for each call.                     *)
(***************************************************************************)
VARIABLES content, lines, index, elements, currentList, currentOrderedList,
          inCodeBlock, codeBlockContent, codeLanguage, skipLines, pc, fenceOpenAt,
          text, currentText, parts, key, textParts, finalParts, result, ipc, pass,
          calls

blockVars == <<content, lines, index, elements, currentList, currentOrderedList,
               inCodeBlock, codeBlockContent, codeLanguage, skipLines, pc, fenceOpenAt>>

inlineVars == <<text, currentText, parts, key, textParts, finalParts, result, ipc, pass>>

vars == <<blockVars, inlineVars, calls>>

\* no call of parseMarkdown beside the one of the block variables
CallIdle == calls = <<>>

(***************************************************************************)
(* parseMarkdown as a state machine: one action per branch of the forEach  *)
(* callback, taken for the first branch whose test holds.                  *)
(***************************************************************************)
BlockStart(c) ==
    /\ content = c
    /\ lines = Split(c, "\n")
    /\ index = 0
    /\ elements = <<>>
    /\ currentList = <<>>
    /\ currentOrderedList = <<>>
    /\ inCodeBlock = FALSE
    /\ codeBlockContent = <<>>
    /\ codeLanguage = <<>>
    /\ skipLines = 0
    /\ pc = "run"
    /\ fenceOpenAt = -1

BlockIdle ==
    /\ content = <<>>
    /\ lines = <<>>
    /\ index = 0
    /\ elements = <<>>
    /\ currentList = <<>>
    /\ currentOrderedList = <<>>
    /\ inCodeBlock = FALSE
    /\ codeBlockContent = <<>>
    /\ codeLanguage = <<>>
    /\ skipLines = 0
    /\ pc = "idle"
    /\ fenceOpenAt = -1

line == lines[index + 1]

trimmedLine == Trim(line)

\* the lists as the flush helpers take them
Lists == [elements |-> elements, currentList |-> currentList,
          currentOrderedList |-> currentOrderedList]

\* the test for fence mode made after the tests for the list items
BranchCodeLate ==
    IF skipLines > 0 THEN "skip"
    ELSE IF IsFence(trimmedLine) THEN "fence"
    ELSE IF UnorderedEnd(trimmedLine) > 0 THEN "ul"
    ELSE IF OrderedEnd(trimmedLine) > 0 THEN "ol"
    ELSE IF inCodeBlock THEN "code"
    ELSE IF HeadingLevel(trimmedLine) > 0 THEN "heading"
    ELSE IF IsRule(trimmedLine) THEN "hr"
    ELSE IF IsQuote(trimmedLine) THEN "quote"
    ELSE IF /\ Includes(trimmedLine, <<"|">>) /\ ~inCodeBlock
            /\ (parseTable(lines, index).threw \/ parseTable(lines, index).returned > 0)
         THEN "table"
    ELSE IF trimmedLine = <<>> THEN "blank"
    ELSE "paragraph"

\* the table test made before the tests for headings, rules, quotes and items
BranchTableFirst ==
    IF skipLines > 0 THEN "skip"
    ELSE IF IsFence(trimmedLine) THEN "fence"
    ELSE IF inCodeBlock THEN "code"
    ELSE IF /\ Includes(trimmedLine, <<"|">>)
            /\ (parseTable(lines, index).threw \/ parseTable(lines, index).returned > 0)
         THEN "table"
    ELSE IF HeadingLevel(trimmedLine) > 0 THEN "heading"
    ELSE IF IsRule(trimmedLine) THEN "hr"
    ELSE IF IsQuote(trimmedLine) THEN "quote"
    ELSE IF UnorderedEnd(trimmedLine) > 0 THEN "ul"
    ELSE IF OrderedEnd(trimmedLine) > 0 THEN "ol"
    ELSE IF trimmedLine = <<>> THEN "blank"
    ELSE "paragraph"

\* the branch of the callback that handles the current line
Branch ==
    IF skipLines > 0 THEN "skip"
    ELSE IF IsFence(trimmedLine) THEN "fence"
    ELSE IF inCodeBlock THEN "code"
    ELSE IF HeadingLevel(trimmedLine) > 0 THEN "heading"
    ELSE IF IsRule(trimmedLine) THEN "hr"
    ELSE IF IsQuote(trimmedLine) THEN "quote"
    ELSE IF UnorderedEnd(trimmedLine) > 0 THEN "ul"
    ELSE IF OrderedEnd(trimmedLine) > 0 THEN "ol"
    ELSE IF /\ Includes(trimmedLine, <<"|">>) /\ ~inCodeBlock
            /\ (parseTable(lines, index).threw \/ parseTable(lines, index).returned > 0)
         THEN "table"
    ELSE IF trimmedLine = <<>> THEN "blank"
    ELSE "paragraph"

Running(b) == pc = "run" /\ index < Len(lines) /\ Branch = b

\* a branch that flushes the lists and pushes one block
PushBlock(block) ==
    /\ elements' = Append(flushAllLists(Lists).elements, block)
    /\ currentList' = <<>>
    /\ currentOrderedList' = <<>>
    /\ index' = index + 1
    /\ UNCHANGED <<calls, inlineVars, content, lines, inCodeBlock, codeBlockContent, codeLanguage,
                   skipLines, pc, fenceOpenAt>>

SkipLine ==
    /\ Running("skip")
    /\ skipLines' = skipLines - 1
    /\ index' = index + 1
    /\ UNCHANGED <<calls, inlineVars, content, lines, elements, currentList, currentOrderedList,
                   inCodeBlock, codeBlockContent, codeLanguage, pc, fenceOpenAt>>

FenceClose ==
    /\ Running("fence")
    /\ inCodeBlock
    /\ LET c == flushCodeBlock([elements |-> elements, codeBlockContent |-> codeBlockContent,
                                codeLanguage |-> codeLanguage])
       IN  /\ elements' = c.elements
           /\ codeBlockContent' = c.codeBlockContent
           /\ codeLanguage' = c.codeLanguage
    /\ inCodeBlock' = FALSE
    /\ fenceOpenAt' = -1
    /\ index' = index + 1
    /\ UNCHANGED <<calls, inlineVars, content, lines, currentList, currentOrderedList, skipLines, pc>>

FenceOpen ==
    /\ Running("fence")
    /\ ~inCodeBlock
    /\ LET a == flushAllLists(Lists)
       IN  /\ elements' = a.elements
           /\ currentList' = a.currentList
           /\ currentOrderedList' = a.currentOrderedList
    /\ inCodeBlock' = TRUE
    /\ codeLanguage' = Trim(Slice(trimmedLine, 3))
    /\ fenceOpenAt' = index
    /\ index' = index + 1
    /\ UNCHANGED <<calls, inlineVars, content, lines, codeBlockContent, skipLines, pc>>

\* the trimmed line pushed in place of the line
CodeLineTrimmed(l) == Trim(l)

\* codeBlockContent.push(line)
CodeLine(l) == l

FenceLine ==
    /\ Running("code")
    /\ codeBlockContent' = Append(codeBlockContent, CodeLine(line))
    /\ index' = index + 1
    /\ UNCHANGED <<calls, inlineVars, content, lines, elements, currentList, currentOrderedList, inCodeBlock,
                   codeLanguage, skipLines, pc, fenceOpenAt>>

HeadingLine ==
    /\ Running("heading")
    /\ PushBlock(HeadingBlock(HeadingLevel(trimmedLine),
                              Slice(trimmedLine, HeadingLevel(trimmedLine) + 1)))

RuleLine ==
    /\ Running("hr")
    /\ PushBlock(RuleBlock)

QuoteLine ==
    /\ Running("quote")
    /\ PushBlock(QuoteBlock(Slice(trimmedLine, 2)))

UnorderedItem ==
    /\ Running("ul")
    /\ LET a == flushOrderedList(Lists)
       IN  /\ elements' = a.elements
           /\ currentOrderedList' = a.currentOrderedList
           /\ currentList' = Append(a.currentList, Slice(trimmedLine, UnorderedEnd(trimmedLine)))
    /\ index' = index + 1
    /\ UNCHANGED <<calls, inlineVars, content, lines, inCodeBlock, codeBlockContent, codeLanguage,
                   skipLines, pc, fenceOpenAt>>

OrderedItem ==
    /\ Running("ol")
    /\ LET a == flushList(Lists)
       IN  /\ elements' = a.elements
           /\ currentList' = a.currentList
           /\ currentOrderedList' = Append(a.currentOrderedList,
                                           Slice(trimmedLine, OrderedEnd(trimmedLine)))
    /\ index' = index + 1
    /\ UNCHANGED <<calls, inlineVars, content, lines, inCodeBlock, codeBlockContent, codeLanguage,
                   skipLines, pc, fenceOpenAt>>

\* no line is skipped after a table
SkipAfterNone(linesSkipped) == 0

\* every line the table took is skipped, and the line after it as well
SkipAfterWhole(linesSkipped) == linesSkipped

\* skipLines = linesSkipped - 1
SkipAfter(linesSkipped) == linesSkipped - 1

\* the table branch when parseTable returns more than 0 (or throws): the
\* lists are flushed, parseTable pushes the table, the rest is skipped
TableLine ==
    /\ Running("table")
    /\ LET t == parseTable(lines, index)
       IN  /\ elements' = flushAllLists(Lists).elements \o t.pushed
           /\ skipLines' = IF t.threw THEN skipLines ELSE SkipAfter(t.returned)
           /\ pc' = IF t.threw THEN "error" ELSE pc
    /\ currentList' = <<>>
    /\ currentOrderedList' = <<>>
    /\ index' = index + 1
    /\ UNCHANGED <<calls, inlineVars, content, lines, inCodeBlock, codeBlockContent, codeLanguage, fenceOpenAt>>

\* a spacer for every blank line, also when nothing has been emitted
SpacerForAlways(els) == <<SpacerBlock>>

\* no spacer after a block that is a list
SpacerForNotAfterList(els) ==
    IF Len(els) > 0 /\ els[Len(els)].type \notin {"ul", "ol"} THEN <<SpacerBlock>> ELSE <<>>

\* if (elements.length > 0) elements.push(spacer), after the flush
SpacerFor(els) == IF Len(els) > 0 THEN <<SpacerBlock>> ELSE <<>>

BlankLine ==
    /\ Running("blank")
    /\ elements' = flushAllLists(Lists).elements \o SpacerFor(flushAllLists(Lists).elements)
    /\ currentList' = <<>>
    /\ currentOrderedList' = <<>>
    /\ index' = index + 1
    /\ UNCHANGED <<calls, inlineVars, content, lines, inCodeBlock, codeBlockContent, codeLanguage,
                   skipLines, pc, fenceOpenAt>>

\* also the line with a "|" for which parseTable returned 0
ParagraphLine ==
    /\ Running("paragraph")
    /\ PushBlock(ParagraphBlock(trimmedLine))

\* after the forEach: flushAllLists(), flushCodeBlock(), return elements
Finish ==
    /\ pc = "run"
    /\ index = Len(lines)
    /\ LET a == flushAllLists(Lists)
           c == flushCodeBlock([elements |-> a.elements, codeBlockContent |-> codeBlockContent,
                                codeLanguage |-> codeLanguage])
       IN  /\ elements' = c.elements
           /\ codeBlockContent' = c.codeBlockContent
           /\ codeLanguage' = c.codeLanguage
    /\ currentList' = <<>>
    /\ currentOrderedList' = <<>>
    /\ pc' = "done"
    /\ UNCHANGED <<calls, inlineVars, content, lines, index, inCodeBlock, skipLines, fenceOpenAt>>

(***************************************************************************)
(* parseInlineMarkdown as a state machine: one action per substitution     *)
(* pass, then the split, then the reassembly and the return.               *)
(***************************************************************************)
InlineStart(t) ==
    /\ text = t
    /\ currentText = t
    /\ parts = <<>>
    /\ key = 0
    /\ textParts = <<>>
    /\ finalParts = <<>>
    /\ result = <<>>
    /\ ipc = "pass"
    /\ pass = 1

InlineIdle ==
    /\ text = <<>>
    /\ currentText = <<>>
    /\ parts = <<>>
    /\ key = 0
    /\ textParts = <<>>
    /\ finalParts = <<>>
    /\ result = <<>>
    /\ ipc = "idle"
    /\ pass = 1

RunPass(p) ==
    /\ ipc = "pass"
    /\ pass <= Len(PassOrder)
    /\ PassOrder[pass] = p
    /\ LET st == ApplyPass(p, [text |-> currentText, parts |-> parts, key |-> key])
       IN  /\ currentText' = st.text
           /\ parts' = st.parts
           /\ key' = st.key
    /\ pass' = pass + 1
    /\ ipc' = IF pass = Len(PassOrder) THEN "split" ELSE "pass"
    /\ UNCHANGED <<calls, blockVars, text, textParts, finalParts, result>>

CodePass == RunPass("code")

StrikePass == RunPass("strike")

BoldPass == RunPass("bold")

ItalicPass == RunPass("italic")

LinkPass == RunPass("link")

EmailPass == RunPass("email")

UrlPass == RunPass("url")

NumberPass == RunPass("number")

SplitText ==
    /\ ipc = "split"
    /\ textParts' = SplitTokens(currentText)
    /\ ipc' = "join"
    /\ UNCHANGED <<calls, blockVars, text, currentText, parts, key, finalParts, result, pass>>

Reconstruct ==
    /\ ipc = "join"
    /\ finalParts' = Reassemble(textParts, parts, <<>>)
    /\ result' = InlineResult(Reassemble(textParts, parts, <<>>), text)
    /\ ipc' = "done"
    /\ UNCHANGED <<calls, blockVars, text, currentText, parts, key, textParts, pass>>

(***************************************************************************)
(* The specifications: Spec runs parseMarkdown on every text of Contents,  *)
(* InlineSpec runs parseInlineMarkdown on every text of InlineTexts.       *)
(***************************************************************************)
Init == (\E c \in Contents : BlockStart(c)) /\ InlineIdle /\ CallIdle

Next ==
    \/ SkipLine
    \/ FenceOpen
    \/ FenceClose
    \/ FenceLine
    \/ HeadingLine
    \/ RuleLine
    \/ QuoteLine
    \/ UnorderedItem
    \/ OrderedItem
    \/ TableLine
    \/ BlankLine
    \/ ParagraphLine
    \/ Finish

Spec == Init /\ [][Next]_vars

\* the inline texts: the short ones over InlineAlphabet and the scenarios
InlineTexts == InlineStrings \cup InlineScenarios

InlineInit == BlockIdle /\ (\E t \in InlineTexts : InlineStart(t)) /\ CallIdle

InlineNext ==
    \/ CodePass
    \/ StrikePass
    \/ BoldPass
    \/ ItalicPass
    \/ LinkPass
    \/ EmailPass
    \/ UrlPass
    \/ NumberPass
    \/ SplitText
    \/ Reconstruct

InlineSpec == InlineInit /\ [][InlineNext]_vars


(***************************************************************************)
(* Calls of parseMarkdown side by side.  The locals of a call are a record *)
(* with the fields of the block variables; Step is the forEach callback    *)
(* (and, after the last line, the final flush and the return) as a         *)
(* function of the locals of the call that runs it.                        *)
(***************************************************************************)
\* the locals at the start of parseMarkdown(c)
Start(c) ==
    [content            |-> c,
     lines              |-> Split(c, "\n"),
     index              |-> 0,
     elements           |-> <<>>,
     currentList        |-> <<>>,
     currentOrderedList |-> <<>>,
     inCodeBlock        |-> FALSE,
     codeBlockContent   |-> <<>>,
     codeLanguage       |-> <<>>,
     skipLines          |-> 0,
     pc                 |-> "run"]

\* the branch of the callback that handles the current line of the call
BranchOf(st) ==
    LET t == Trim(st.lines[st.index + 1])
    IN  IF st.skipLines > 0 THEN "skip"
        ELSE IF IsFence(t) THEN "fence"
        ELSE IF st.inCodeBlock THEN "code"
        ELSE IF HeadingLevel(t) > 0 THEN "heading"
        ELSE IF IsRule(t) THEN "hr"
        ELSE IF IsQuote(t) THEN "quote"
        ELSE IF UnorderedEnd(t) > 0 THEN "ul"
        ELSE IF OrderedEnd(t) > 0 THEN "ol"
        ELSE IF /\ Includes(t, <<"|">>) /\ ~st.inCodeBlock
                /\ (parseTable(st.lines, st.index).threw
                    \/ parseTable(st.lines, st.index).returned > 0)
             THEN "table"
        ELSE IF t = <<>> THEN "blank"
        ELSE "paragraph"

\* the callback for the current line
LineStep(st) ==
    LET l       == st.lines[st.index + 1]
        t       == Trim(l)
        b       == BranchOf(st)
        flushed == flushAllLists(st)
        tb      == parseTable(st.lines, st.index)
        Push(block) == [flushed EXCEPT !.elements = Append(@, block), !.index = @ + 1]
    IN  CASE b = "skip" -> [st EXCEPT !.skipLines = @ - 1, !.index = @ + 1]
          [] b = "fence" ->
                IF st.inCodeBlock
                THEN [flushCodeBlock(st) EXCEPT !.inCodeBlock = FALSE, !.index = @ + 1]
                ELSE [flushed EXCEPT !.inCodeBlock = TRUE,
                                     !.codeLanguage = Trim(Slice(t, 3)),
                                     !.index = @ + 1]
          [] b = "code" ->
                [st EXCEPT !.codeBlockContent = Append(@, CodeLine(l)), !.index = @ + 1]
          [] b = "heading" ->
                Push(HeadingBlock(HeadingLevel(t), Slice(t, HeadingLevel(t) + 1)))
          [] b = "hr" -> Push(RuleBlock)
          [] b = "quote" -> Push(QuoteBlock(Slice(t, 2)))
          [] b = "ul" ->
                [flushOrderedList(st) EXCEPT !.currentList = Append(@, Slice(t, UnorderedEnd(t))),
                                             !.index = @ + 1]
          [] b = "ol" ->
                [flushList(st) EXCEPT !.currentOrderedList = Append(@, Slice(t, OrderedEnd(t))),
                                      !.index = @ + 1]
          [] b = "table" ->
                IF tb.threw
                THEN [flushed EXCEPT !.pc = "error", !.index = @ + 1]
                ELSE [flushed EXCEPT !.elements = @ \o tb.pushed,
                                     !.skipLines = SkipAfter(tb.returned),
                                     !.index = @ + 1]
          [] b = "blank" ->
                [flushed EXCEPT !.elements = @ \o SpacerFor(flushed.elements), !.index = @ + 1]
          [] b = "paragraph" -> Push(ParagraphBlock(t))

\* one step of a call: the callback for its current line, or after the
\* last line the final flush and the return
Step(st) ==
    IF st.pc # "run" THEN st
    ELSE IF st.index < Len(st.lines) THEN LineStep(st)
    ELSE [flushCodeBlock(flushAllLists(st)) EXCEPT !.pc = "done"]

\* parseMarkdown run from the locals st to its end, on its own
RECURSIVE RunFrom(_)
RunFrom(st) == IF st.pc # "run" THEN st ELSE RunFrom(Step(st))

\* what parseMarkdown(c) returns when it runs alone
RunAlone(c) == RunFrom(Start(c)).elements

\* the block variables as the locals of one call
Snapshot ==
    [content            |-> content,
     lines              |-> lines,
     index              |-> index,
     elements           |-> elements,
     currentList        |-> currentList,
     currentOrderedList |-> currentOrderedList,
     inCodeBlock        |-> inCodeBlock,
     codeBlockContent   |-> codeBlockContent,
     codeLanguage       |-> codeLanguage,
     skipLines          |-> skipLines,
     pc                 |-> pc]

\* the calls read the lists of the first call, as if the list accumulators
\* were variables of the module
LocalsSharedLists(cs, c) ==
    [cs[c] EXCEPT !.currentList = cs[1].currentList,
                  !.currentOrderedList = cs[1].currentOrderedList]

\* the calls read the fence flag, code buffer, language and skip counter of
\* the first call, as if they were variables of the module
LocalsSharedFence(cs, c) ==
    [cs[c] EXCEPT !.inCodeBlock = cs[1].inCodeBlock,
                  !.codeBlockContent = cs[1].codeBlockContent,
                  !.codeLanguage = cs[1].codeLanguage,
                  !.skipLines = cs[1].skipLines]

\* the locals that call c reads: its own
Locals(cs, c) == cs[c]

\* the texts of the calls that run side by side
CallTexts ==
    {<<L_Item, L_Item, L_Para>>,
     <<L_Item, L_Ordered>>,
     <<L_FenceJs, L_Para, L_Item>>,
     <<L_FenceJs, L_Para, L_Fence, L_Para>>,
     <<L_Row2, L_Sep, L_Row3, L_Para>>,
     <<L_Para, L_Blank, L_Para>>,
     <<L_Title, L_One, L_Two, L_Blank>>,
     <<L_Ordered, L_Row2, L_Blank>>}

CallStart(c1, c2) == calls = <<Start(c1), Start(c2)>>

\* call c handles its next line, or returns; the other call is suspended
CallStep(c) ==
    /\ c \in DOMAIN calls
    /\ calls[c].pc = "run"
    /\ calls' = [calls EXCEPT ![c] = Step(Locals(calls, c))]
    /\ UNCHANGED <<blockVars, inlineVars>>

FirstCallStep == CallStep(1)

SecondCallStep == CallStep(2)

CallInit ==
    /\ BlockIdle
    /\ InlineIdle
    /\ \E a \in CallTexts : \E b \in CallTexts : CallStart(Text(a), Text(b))

CallNext ==
    \/ FirstCallStep
    \/ SecondCallStep

CallSpec == CallInit /\ [][CallNext]_vars


(***************************************************************************)
(* Properties.                                                             *)
(***************************************************************************)
Last(q) == q[Len(q)]

Types(q) == [k \in 1..Len(q) |-> q[k].type]

Count(q, v) == Cardinality({k \in 1..Len(q) : q[k] = v})

NodeTypes == {"text", "code", "strike", "bold", "italic", "link", "email", "url", "number"}

\* every inline child of every block is a sequence of inline nodes
RenderedDefined ==
    \A k \in 1..Len(elements) :
        \A c \in 1..Len(Rendered(elements[k])) :
            LET r == Rendered(elements[k])[c]
            IN  IF elements[k].type = "table" /\ c > Len(elements[k].head)
                THEN \A j \in 1..Len(r) : \A n \in 1..Len(r[j]) : r[j][n].type \in NodeTypes
                ELSE \A n \in 1..Len(r) : r[n].type \in NodeTypes

\* the branches of the callback, each the guard of one or two actions
Branches == {"skip", "fence", "code", "heading", "hr", "quote", "ul", "ol",
             "table", "blank", "paragraph"}

\* C1: parseMarkdown never throws; until it returns there is always a
\* step to take (a branch for the current line, or the final flush), each
\* step handles one more line or is the return, and it returns a sequence
\* of blocks whose inline contents are all defined
C1_Totality ==
    /\ [](pc # "error")
    /\ [](pc = "run" => \/ (index < Len(lines) /\ Branch \in Branches)
                        \/ index = Len(lines))
    /\ [][pc = "run" => \/ (pc' = "run" /\ index' = index + 1)
                         \/ (pc' = "done" /\ index = Len(lines))]_vars
    /\ [](pc = "done" => RenderedDefined)

\* a text with an unterminated fence and a table whose scan runs to the end
\* of the input has been parsed to the end
C1_Witness ==
    /\ pc = "done"
    /\ lines = <<L_Row2, L_Blank, L_FenceJs>>
    /\ inCodeBlock
    /\ Types(elements) = <<"table">>

\* the input lines strictly between the line that opened the fence and the
\* line (or the end of the input) reached at index i
Between(i) == SubSeq(lines, fenceOpenAt + 2, i)

\* C2: while a fence is open no block is emitted, and when it is closed by a
\* delimiter line or by the end of the input the block emitted is one code
\* block whose lines are the input lines between, unmodified and in order
C2_FenceVerbatim ==
    [][/\ (inCodeBlock /\ inCodeBlock' /\ pc' = "run") => elements' = elements
       /\ (inCodeBlock /\ (~inCodeBlock' \/ pc' = "done") /\ Between(index) # <<>>) =>
            /\ Len(elements') = Len(elements) + 1
            /\ SubSeq(elements', 1, Len(elements)) = elements
            /\ Last(elements').type = "pre"
            /\ Split(Last(elements').code, "\n") = Between(index)]_vars

\* a fence that held a white-space line, a heading line and a table line
\* was closed and emitted them as they were
C2_Witness ==
    /\ pc = "done"
    /\ \E k \in 1..Len(elements) :
          /\ elements[k].type = "pre"
          /\ Split(elements[k].code, "\n") = <<L_Spaces, L_Title, L_Row2>>

\* the accepted rows of a table block, header first
AllRows(t) == IF t.hasHeader THEN <<t.headerRow>> \o t.dataRows ELSE t.dataRows

\* C3 (as claimed): in every table emitted, every row, header included, has
\* the same number of cells, the greatest cell count of the accepted rows
C3_TablePadding ==
    \A k \in 1..Len(elements) :
        elements[k].type = "table" =>
            \A r \in 1..Len(AllRows(elements[k])) :
                Len(AllRows(elements[k])[r]) = MaxRowLength(AllRows(elements[k]))

\* the nodes of a result that are not plain text
NonText(q) == SelectSeq(q, LAMBDA n : n.type # "text")

HasToken(t) == \E i \in 1..Len(t) : TokenEnd(t, i) > 0

\* C4 (as claimed): no pass matches a placeholder of an earlier pass, so no
\* recorded node holds a placeholder, and every recorded node is in the
\* output exactly once
C4_NonOverlap ==
    ipc = "done" =>
        /\ \A k \in 1..Len(parts) : ~HasToken(parts[k].text)
        /\ \A k \in 1..Len(parts) : Count(NonText(result), parts[k]) = Count(parts, parts[k])
        /\ Len(NonText(result)) = Len(parts)

\* the source text of a node: its text between the delimiters of its kind
Unparse(n) ==
    CASE n.type = "code"   -> <<Backtick>> \o n.text \o <<Backtick>>
      [] n.type = "strike" -> <<"~", "~">> \o n.text \o <<"~", "~">>
      [] n.type = "bold"   -> <<"*", "*">> \o n.text \o <<"*", "*">>
      [] n.type = "italic" -> <<"*">> \o n.text \o <<"*">>
      [] n.type = "link"   -> <<"[">> \o n.text \o <<"]", "(">> \o n.url \o <<")">>
      [] OTHER             -> n.text

RECURSIVE UnparseAll(_)
UnparseAll(q) == IF q = <<>> THEN <<>> ELSE Unparse(Head(q)) \o UnparseAll(Tail(q))

\* C5 (as claimed): the output nodes, each between its delimiters, spell the
\* input: no character is dropped and no node is output that the input does
\* not hold at that position
C5_NoDrop == ipc = "done" => UnparseAll(result) = text

\* text is one code span: a backtick, one or more other characters, a backtick
Enclosed ==
    /\ Len(text) >= 3
    /\ text[1] = Backtick
    /\ text[Len(text)] = Backtick
    /\ \A k \in 2..(Len(text) - 1) : text[k] # Backtick

CodeNode(t) == [type |-> "code", text |-> t, url |-> <<>>]

\* C6: a text that is one code span yields exactly one code node holding
\* the enclosed text as it is, and no other node; in every text, the code
\* nodes are the code spans of the text, whatever the later passes do
C6_CodePrecedence ==
    ipc = "done" =>
        /\ Enclosed => result = <<CodeNode(SubSeq(text, 2, Len(text) - 1))>>
        /\ SelectSeq(parts, LAMBDA n : n.type = "code")
             = ReplaceFrom("code", text, 1, [text |-> <<>>, parts |-> <<>>, key |-> 0]).parts

\* the code span that looks like bold text came out as one code node
C6_Witness ==
    /\ ipc = "done"
    /\ text = T_CodeBold
    /\ result = <<CodeNode(SubSeq(T_CodeBold, 2, Len(T_CodeBold) - 1))>>
    /\ SubSeq(result[1].text, 1, 2) = <<"*", "*">>

\* C7 (as claimed): [text](url) yields a link node with that text and
\* target, and the mixed line yields text, italic, text, e-mail, text, link
C7_Links ==
    ipc = "done" =>
        /\ text = T_Link =>
             result = <<[type |-> "link", text |-> <<"d", "o", "c", "s">>,
                         url |-> <<"h", "t", "t", "p", ":", "/", "/", "x", ".", "c", "o">>]>>
        /\ text = T_Contact =>
             /\ Types(result) = <<"text", "italic", "text", "email", "text", "link">>
             /\ result[2].text = <<"J", "a", "n", "e">>
             /\ result[6].text = <<"d", "o", "c", "s">>
             /\ result[6].url = <<"h", "t", "t", "p", ":", "/", "/", "x", ".", "c", "o">>

\* the callback is about to handle the current line in its table branch
TableStep == pc = "run" /\ index < Len(lines) /\ Branch = "table"

C_Name  == <<"N", "a", "m", "e">>
C_Score == <<"S", "c", "o", "r", "e">>
C_Alice == <<"A", "l", "i", "c", "e">>

C9_TrailingNewline ==
    /\ (pc = "done" /\ Len(lines) > 1 /\ Last(lines) = <<>> /\ elements # <<>>) =>
            Last(elements).type # "space"
    /\ (pc = "done" /\ lines = <<L_Title, L_One, L_Two, L_Blank>>) =>
            Types(elements) = <<"heading", "ul">>

\* C9 (amended): the empty line after a final newline, when it is reached
\* outside a fence and is not skipped as part of a table, is handled as any
\* blank line: the open list is emitted and then a spacer, if any block has
\* been emitted; the heading and list text yields heading, list, spacer
C9_TrailingNewlineAmended ==
    /\ [][(/\ pc = "run" /\ index = Len(lines) - 1 /\ lines[Len(lines)] = <<>>
           /\ Len(lines) > 1 /\ ~inCodeBlock /\ skipLines = 0) =>
            /\ elements' = flushAllLists(Lists).elements
                             \o (IF Len(flushAllLists(Lists).elements) > 0
                                 THEN <<SpacerBlock>> ELSE <<>>)
            /\ currentList' = <<>>
            /\ currentOrderedList' = <<>>]_vars
    /\ [](pc = "done" /\ lines = <<L_Title, L_One, L_Two, L_Blank>> =>
            elements = <<HeadingBlock(2, <<"T", "i", "t", "l", "e">>),
                         ListBlock(<<<<"o", "n", "e">>, <<"t", "w", "o">>>>),
                         SpacerBlock>>)

\* the heading and list text ended with a spacer
C9_Witness ==
    /\ pc = "done"
    /\ lines = <<L_Title, L_One, L_Two, L_Blank>>
    /\ Types(elements) = <<"heading", "ul", "space">>

\* C10 (as claimed): the emitted blocks never hold two adjacent spacers
C10_SpacerCollapsing ==
    \A k \in 1..(Len(elements) - 1) :
        ~(elements[k].type = "space" /\ elements[k + 1].type = "space")

\* position k of t lies inside a placeholder token
InToken(t, k) == \E j \in 1..k : TokenEnd(t, j) >= k

NumberNode(t) == [type |-> "number", text |-> t, url |-> <<>>]

\* the number pass is about to run
AtNumberPass == ipc = "pass" /\ pass <= Len(PassOrder) /\ PassOrder[pass] = "number"

BlockUnits(b) ==
    CASE b.type \in {"ul", "ol"} -> Len(b.items)
      [] b.type = "table"        -> Len(AllRows(b))
      [] b.type = "pre"          -> Len(Split(b.code, "\n"))
      [] b.type = "space"        -> 0
      [] OTHER                   -> 1

RECURSIVE SumUnits(_)
SumUnits(q) == IF q = <<>> THEN 0 ELSE BlockUnits(Head(q)) + SumUnits(Tail(q))

\* the input lines held by the output and by the open list and code buffers
Units(els, ul, ol, buf) == SumUnits(els) + Len(ul) + Len(ol) + Len(buf)

\* the indices, in order, among the n from i on that are not the index of
\* a blank line or of a separator line
RowLines(i, n) ==
    SelectSeq([k \in 1..n |-> i + k - 1],
              LAMBDA j : \/ j >= Len(lines)
                         \/ (Trim(lines[j + 1]) # <<>> /\ ~IsSeparator(Trim(lines[j + 1]))))

\* row is the cells of the line, padded on the right with empty cells
RowOf(row, l) ==
    /\ Len(row) >= Len(RowCells(Trim(l)))
    /\ SubSeq(row, 1, Len(RowCells(Trim(l)))) = RowCells(Trim(l))
    /\ \A k \in (Len(RowCells(Trim(l))) + 1)..Len(row) : row[k] = <<>>

\* C12: no step removes or changes a block already emitted; a skipped line,
\* a fence delimiter and a blank line add no line to the output, a line of
\* any other kind is added exactly once, as a block of its own, an item, a
\* raw line or a row, and a table adds one row for each line it consumes
\* that is neither blank nor a separator, in order; the final flush loses
\* and adds nothing
C12_Coverage ==
    [][pc = "run" /\ pc' # "error" =>
        LET before == Units(elements, currentList, currentOrderedList, codeBlockContent)
            after  == Units(elements', currentList', currentOrderedList', codeBlockContent')
        IN  /\ Len(elements') >= Len(elements)
            /\ SubSeq(elements', 1, Len(elements)) = elements
            /\ index = Len(lines) => after = before
            /\ index < Len(lines) =>
                 CASE Branch \in {"skip", "fence", "blank"} -> after = before
                   [] Branch = "code" ->
                        after = before + 1 /\ Last(codeBlockContent') = line
                   [] Branch = "ul" ->
                        after = before + 1 /\ EndsWith(trimmedLine, Last(currentList'))
                   [] Branch = "ol" ->
                        after = before + 1 /\ EndsWith(trimmedLine, Last(currentOrderedList'))
                   [] Branch = "hr" ->
                        after = before + 1 /\ Last(elements').type = "hr"
                   [] Branch \in {"heading", "quote", "paragraph"} ->
                        /\ after = before + 1
                        /\ Last(elements').type \in {"heading", "quote", "p"}
                        /\ EndsWith(trimmedLine, Last(elements').text)
                   [] Branch = "table" ->
                        LET rl == RowLines(index, skipLines' + 1)
                            t  == Last(elements')
                        IN  /\ after = before + Len(rl)
                            /\ t.type = "table"
                            /\ Len(AllRows(t)) = Len(rl)
                            /\ \A r \in 1..Len(rl) : RowOf(AllRows(t)[r], lines[rl[r] + 1])]_vars

\* a text whose lines went to a list, a table with a separator line, a
\* fence and a paragraph has been parsed: 5 of its 9 lines are content
C12_Witness ==
    /\ pc = "done"
    /\ lines = <<L_Item, L_Row2, L_Sep, L_Row3, L_FenceJs, L_Para, L_Fence, L_Blank, L_Para>>
    /\ Types(elements) = <<"ul", "table", "pre", "space", "p">>
    /\ SumUnits(elements) = 5

\* the language written on the line that opened the fence being read
OpeningLanguage == Trim(Slice(Trim(lines[fenceOpenAt + 1]), 3))

\* the blocks that the buffers hold when the last line has been handled
Buffered ==
    (IF currentList # <<>> THEN <<[type |-> "ul", items |-> currentList]>> ELSE <<>>)
    \o (IF currentOrderedList # <<>>
        THEN <<[type |-> "ol", items |-> currentOrderedList]>> ELSE <<>>)
    \o (IF codeBlockContent # <<>>
        THEN <<[type  |-> "pre",
                label |-> ToUpperCase(OpeningLanguage),
                code  |-> Join(codeBlockContent, "\n")]>>
        ELSE <<>>)

\* C13: the step after the last line returns, and what it returns is the
\* output so far followed by the open list as a list block and by the lines
\* of an unterminated fence as a code block with the language of the line
\* that opened it; lines are buffered for a code block only inside a fence,
\* and once parseMarkdown has returned every buffer is empty
C13_EndFlush ==
    /\ [][pc = "run" /\ index = Len(lines) =>
            /\ pc' = "done"
            /\ elements' = elements \o Buffered
            /\ currentList' = <<>>
            /\ currentOrderedList' = <<>>
            /\ codeBlockContent' = <<>>]_vars
    /\ [](codeBlockContent # <<>> => inCodeBlock /\ fenceOpenAt >= 0)
    /\ [](pc = "done" =>
            currentList = <<>> /\ currentOrderedList = <<>> /\ codeBlockContent = <<>>)

\* the text ended inside a fence opened with a language and after a list:
\* the list was emitted when the fence opened, the code block at the end
C13_Witness ==
    /\ pc = "done"
    /\ lines = <<L_Item, L_FenceJs, L_Para, L_Ordered>>
    /\ inCodeBlock
    /\ elements = <<[type |-> "ul", items |-> <<<<"a">>>>],
                    [type |-> "pre", label |-> <<"J", "S">>,
                     code |-> L_Para \o <<"\n">> \o L_Ordered]>>

\* the text ended with an ordered list open, which was emitted at the end
C13_WitnessList ==
    /\ pc = "done"
    /\ lines = <<L_Para, L_Ordered, L_Ordered>>
    /\ elements = <<[type |-> "p", text |-> <<"*", "p", "*">>],
                    [type |-> "ol", items |-> <<<<"b">>, <<"b">>>>]>>

\* the actions of parseMarkdown and Step are the same function of the locals
StepAgrees == [][pc = "run" => Snapshot' = Step(Snapshot)]_vars

\* what the block variables hold at the return is what RunAlone gives
RunAgrees == pc = "done" => elements = RunAlone(content)

C16_CursorAdvance ==
    /\ [][TableStep /\ pc' # "error" =>
            /\ parseTable(lines, index).returned > 0
            /\ elements' = flushAllLists(Lists).elements \o parseTable(lines, index).pushed
            /\ Len(parseTable(lines, index).pushed) = 1
            /\ skipLines' = parseTable(lines, index).returned - 1
            /\ index' = index + 1]_vars
    /\ [][pc = "run" /\ skipLines > 0 =>
            /\ index' = index + 1
            /\ skipLines' = skipLines - 1
            /\ pc' = "run"
            /\ UNCHANGED <<elements, currentList, currentOrderedList, inCodeBlock,
                           codeBlockContent, codeLanguage>>]_vars
    /\ [](pc = "run" /\ skipLines > 0 =>
            /\ index + skipLines <= Len(lines)
            /\ \E i \in 0..(index - 1) :
                  /\ parseTable(lines, i).returned = index + skipLines - i
                  /\ <<Last(elements)>> = parseTable(lines, i).pushed)

\* after the table of four lines (two rows, a separator line and a blank
\* line) the paragraph line is the line to be classified
C16_Witness ==
    /\ pc = "run"
    /\ lines = <<L_Row2, L_Rule, L_Row3, L_Blank, L_Para>>
    /\ index = 4
    /\ skipLines = 0
    /\ Types(elements) = <<"table">>
    /\ Branch = "paragraph"

\* the callback has reached its table test for the current line: no
\* earlier test took the line, and the line holds a "|"
TableTried ==
    /\ pc = "run"
    /\ index < Len(lines)
    /\ Branch \in {"table", "paragraph"}
    /\ Includes(trimmedLine, <<"|">>)

\* the rows that parseTable accepts when it starts at the current line
AcceptedRows == ScanTable(lines, index, <<>>, FALSE).tableRows

\* C17: parseTable returns 0 exactly when it accepted no row; then it
\* pushes no table, and the step emits the line, trimmed, as one paragraph
\* after the lists the callback flushed, moves to the next line and skips
\* none
C17_NotATable ==
    /\ [](TableTried => (parseTable(lines, index).returned = 0 <=> AcceptedRows = <<>>))
    /\ [][TableTried /\ AcceptedRows = <<>> =>
            /\ parseTable(lines, index).returned = 0
            /\ parseTable(lines, index).pushed = <<>>
            /\ elements' = Append(flushAllLists(Lists).elements,
                                  [type |-> "p", text |-> trimmedLine])
            /\ index' = index + 1
            /\ skipLines' = 0
            /\ pc' = "run"]_vars

\* the line Bob | after a list item: no row was accepted, the list was
\* emitted and the line became a paragraph
C17_Witness ==
    /\ pc = "run"
    /\ lines = <<L_Item, L_OneCell>>
    /\ index = 2
    /\ skipLines = 0
    /\ elements = <<[type |-> "ul", items |-> <<<<"a">>>>],
                    [type |-> "p", text |-> L_OneCell]>>

\* C18 (as claimed): the lines parseTable reports end with the last
\* accepted row, so the last of them is neither blank nor a separator line,
\* and a blank line between a table and a paragraph yields a spacer
C18_TableExtent ==
    /\ TableStep =>
          LET last == Trim(lines[index + parseTable(lines, index).returned])
          IN  last # <<>> /\ ~IsSeparator(last)
    /\ (pc = "done" /\ lines = <<L_Row2, L_Blank, L_Para>>) =>
          Types(elements) = <<"table", "space", "p">>

\* the index at which the scan that starts at the current line stops
ScanStop == ScanTable(lines, index, <<>>, FALSE).tableIndex

\* C19 (as claimed): a blank line that the scan skips comes after a line
\* taken as a row, and a separator line followed by a blank line is not a
\* table, so with a row after the blank line the text yields a paragraph,
\* a spacer and the table
C19_BlankEndsEmptyScan ==
    /\ TableTried =>
          \A j \in index..(ScanStop - 1) :
              Trim(lines[j + 1]) = <<>> =>
                  \E k \in index..(j - 1) :
                      Trim(lines[k + 1]) # <<>> /\ ~IsSeparator(Trim(lines[k + 1]))
    /\ (pc = "done" /\ lines = <<L_Sep, L_Blank, L_Row2>>) =>
          Types(elements) = <<"p", "space", "table">>

\* a cell that is not empty and is not made of digits only
Meaningful(cell) == cell # <<>> /\ \E c \in 1..Len(cell) : cell[c] \notin Digit

\* C20: the table emitted for the rows that the scan accepted has a header
\* exactly when a cell of the first accepted row is not empty and not made
\* of digits only; the header is that row and the data rows are the rows
\* after it, or all rows when there is no header, in the order accepted;
\* one cell is shown for each cell of each row
C20_HeaderPartition ==
    [][TableStep /\ pc' # "error" =>
        LET rows == AcceptedRows
            t    == Last(elements')
        IN  /\ rows # <<>>
            /\ t.type = "table"
            /\ t.hasHeader <=> (\E k \in 1..Len(rows[1]) : Meaningful(rows[1][k]))
            /\ t.hasHeader => (t.headerRow = rows[1] /\ t.dataRows = Tail(rows))
            /\ ~t.hasHeader => (t.headerRow = <<>> /\ t.dataRows = rows)
            /\ (IF t.hasHeader THEN 1 ELSE 0) + Len(t.dataRows) = Len(rows)
            /\ Len(t.head) = Len(t.headerRow)
            /\ Len(t.body) = Len(t.dataRows)
            /\ \A r \in 1..Len(t.body) : Len(t.body[r]) = Len(t.dataRows[r])]_vars

\* the table whose first row holds digits only has no header and two data
\* rows
C20_Witness ==
    /\ pc = "done"
    /\ lines = <<L_Digits, L_Row2, L_Blank, L_Sep, L_Quote>>
    /\ Types(elements) = <<"table", "quote">>
    /\ ~elements[1].hasHeader
    /\ elements[1].dataRows = <<<<<<"1">>, <<"2">>>>, <<<<"a">>, <<"b">>>>>>

\* the table whose first row holds a word has that row as its header
C20_WitnessHeader ==
    /\ pc = "done"
    /\ lines = <<L_Row2, L_Row3>>
    /\ elements[1].hasHeader
    /\ elements[1].headerRow = <<<<"a">>, <<"b">>>>
    /\ Len(elements[1].dataRows) = 1

\* C21: every fence that is closed, by a delimiter line or by the end of
\* the input, adds exactly one code block after the blocks of the earlier
\* lines, labelled with the language of the line that opened it, also when
\* no line lies between the opening and the close
C21_OneCodeBlockPerFence ==
    [][inCodeBlock /\ (~inCodeBlock' \/ pc' = "done") =>
          /\ Len(elements') = Len(elements) + 1
          /\ SubSeq(elements', 1, Len(elements)) = elements
          /\ Last(elements').type = "pre"
          /\ Last(elements').label = ToUpperCase(OpeningLanguage)]_vars

\* the open list accumulators as the blocks they are emitted as
OpenLists ==
    (IF currentList # <<>> THEN <<[type |-> "ul", items |-> currentList]>> ELSE <<>>)
    \o (IF currentOrderedList # <<>>
        THEN <<[type |-> "ol", items |-> currentOrderedList]>> ELSE <<>>)

\* the current line is handled as a list item
AtItem(b) == pc = "run" /\ index < Len(lines) /\ Branch = b

\* C22: an unordered item line appends its text to the unordered accumulator
\* and emits nothing but the open ordered list, as its own block, before
\* that; an ordered item line does the same the other way round; every
\* other step emits the open list before any block of its own and leaves
\* both accumulators empty; so each run of item lines is one list block
\* with the item texts in input order
C22_ListAccumulation ==
    /\ [][AtItem("ul") =>
            /\ currentList' = Append(currentList,
                                     Slice(trimmedLine, UnorderedEnd(trimmedLine)))
            /\ currentOrderedList' = <<>>
            /\ elements' = elements \o
                  (IF currentOrderedList # <<>>
                   THEN <<[type |-> "ol", items |-> currentOrderedList]>> ELSE <<>>)]_vars
    /\ [][AtItem("ol") =>
            /\ currentOrderedList' = Append(currentOrderedList,
                                            Slice(trimmedLine, OrderedEnd(trimmedLine)))
            /\ currentList' = <<>>
            /\ elements' = elements \o
                  (IF currentList # <<>>
                   THEN <<[type |-> "ul", items |-> currentList]>> ELSE <<>>)]_vars
    /\ [][pc = "run" /\ ~AtItem("ul") /\ ~AtItem("ol") =>
            /\ currentList' = <<>>
            /\ currentOrderedList' = <<>>
            /\ Len(elements') >= Len(elements) + Len(OpenLists)
            /\ SubSeq(elements', 1, Len(elements) + Len(OpenLists)) = elements \o OpenLists]_vars

\* two unordered items then an ordered one: the unordered list was emitted
\* when the ordered item came, the ordered list at the end
C22_Witness ==
    /\ pc = "done"
    /\ lines = <<L_Item, L_Item, L_Ordered>>
    /\ elements = <<[type |-> "ul", items |-> <<<<"a">>, <<"a">>>>],
                    [type |-> "ol", items |-> <<<<"b">>>>]>>

\* the first rule whose pattern the trimmed line t matches, in the order
\* heading, rule, quote, unordered item, ordered item, table, blank,
\* paragraph
RuleOf(t) ==
    IF HeadingLevel(t) > 0 THEN "heading"
    ELSE IF IsRule(t) THEN "hr"
    ELSE IF IsQuote(t) THEN "quote"
    ELSE IF UnorderedEnd(t) > 0 THEN "ul"
    ELSE IF OrderedEnd(t) > 0 THEN "ol"
    ELSE IF Includes(t, <<"|">>) THEN "table"
    ELSE IF t = <<>> THEN "blank"
    ELSE "paragraph"

\* the step emits the open lists and then the block
Emits(block) == elements' = (elements \o OpenLists) \o <<block>>

\* the step handles the current line as rule r prescribes
HandledAs(r) ==
    CASE r = "heading" ->
            Emits([type  |-> "heading",
                   level |-> HeadingLevel(trimmedLine),
                   text  |-> Slice(trimmedLine, HeadingLevel(trimmedLine) + 1)])
      [] r = "hr" -> Emits([type |-> "hr"])
      [] r = "quote" -> Emits([type |-> "quote", text |-> Slice(trimmedLine, 2)])
      [] r = "ul" ->
            currentList' = Append(currentList, Slice(trimmedLine, UnorderedEnd(trimmedLine)))
      [] r = "ol" ->
            currentOrderedList' =
                Append(currentOrderedList, Slice(trimmedLine, OrderedEnd(trimmedLine)))
      [] r = "table" ->
            IF AcceptedRows # <<>>
            THEN /\ Len(elements') = Len(elements \o OpenLists) + 1
                 /\ Last(elements').type = "table"
                 /\ AllRows(Last(elements')) = AcceptedRows
            ELSE Emits([type |-> "p", text |-> trimmedLine])
      [] r = "blank" ->
            elements' = (elements \o OpenLists) \o
                (IF elements \o OpenLists # <<>> THEN <<[type |-> "space"]>> ELSE <<>>)
      [] r = "paragraph" -> Emits([type |-> "p", text |-> trimmedLine])

\* a line outside fence mode is about to be handled
OutsideFence == pc = "run" /\ index < Len(lines) /\ ~inCodeBlock /\ ~IsFence(trimmedLine)

\* C23 (as claimed): every line outside fence mode is handled by the first
\* rule whose pattern it matches, whatever the lines before it are, also a
\* heading, quote or item line with a column separator that follows a line
\* accepted as a table row
C23_LinePriority == [][OutsideFence => HandledAs(RuleOf(trimmedLine))]_vars

\* C23 (amended): a line outside fence mode that no table scan has consumed
\* is handled by the first rule whose pattern it matches, whatever the
\* lines before it are; a line that a table scan has consumed is not
\* classified at all: it emits nothing, and unless it is blank or a
\* separator line it is a row of the table, whatever other pattern it
\* matches
C23_LinePriorityAmended ==
    /\ [][OutsideFence /\ skipLines = 0 => HandledAs(RuleOf(trimmedLine))]_vars
    /\ [][pc = "run" /\ skipLines > 0 =>
            UNCHANGED <<elements, currentList, currentOrderedList, codeBlockContent>>]_vars
    /\ [](pc = "run" /\ skipLines > 0 =>
            /\ index < Len(lines)
            /\ ~inCodeBlock
            /\ Last(elements).type = "table"
            /\ \/ trimmedLine = <<>>
               \/ IsSeparator(trimmedLine)
               \/ \E r \in 1..Len(AllRows(Last(elements))) :
                      RowOf(AllRows(Last(elements))[r], line))

\* a heading line, a quote line and an item line, each with a column
\* separator, came after a table row and are rows of that table
C23_Witness ==
    /\ pc = "done"
    /\ lines = <<L_Row2, L_HeadPipe, L_QuotePipe, L_ItemPipe>>
    /\ Types(elements) = <<"table">>
    /\ AllRows(elements[1]) = <<<<<<"a">>, <<"b">>>>,
                                <<<<"#", "#", " ", "T">>, <<"x">>>>,
                                <<<<">", " ", "q">>, <<"r">>>>,
                                <<<<"-", " ", "i">>, <<"j">>>>>>

\* every line of the input is empty or white space
AllBlank == \A k \in 1..Len(lines) : Trim(lines[k]) = <<>>

\* C24: a spacer is appended only to a non-empty sequence of blocks, so the
\* first block is never a spacer, and an input of white space and newlines
\* alone yields no block at all
C24_NoLeadingSpacer ==
    /\ [][(Len(elements') > Len(elements) /\ Last(elements').type = "space") =>
             Len(elements') >= 2]_vars
    /\ [](elements # <<>> => elements[1].type # "space")
    /\ [](AllBlank => elements = <<>>)

\* a text of white-space lines and empty lines has been parsed to the end
\* and no block was emitted
C24_Witness ==
    /\ pc = "done"
    /\ lines = <<L_Spaces, L_Blank, L_Spaces>>
    /\ elements = <<>>

\* C25 (as claimed): a token of digits is one number node whatever its
\* length, so a text that is digits alone comes out as one number node, the
\* year 2024 is a number node, and a decimal is one number node with any
\* number of digits after the point
C25_NumericTokens ==
    /\ (ipc = "done" /\ text # <<>> /\ \A k \in 1..Len(text) : text[k] \in Digit) =>
          result = <<NumberNode(text)>>
    /\ (ipc = "done" /\ text = T_Year) =>
          result = <<TextNode(<<"i", "n", " ">>), NumberNode(<<"2", "0", "2", "4">>)>>
    /\ (ipc = "done" /\ text = T_Money) =>
          result = <<NumberNode(<<"1", ",", "2", "5", "0", ".", "7", "5">>),
                     TextNode(<<" ", "a", "n", "d", " ">>),
                     NumberNode(<<"3", ".", "1", "4", "1", "5", "9">>)>>

\* the placeholder of the n-th recorded node: the tag of its kind and the
\* value the counter had when it was recorded
TokenOf(n) ==
    <<"_", "_">> \o TagOf(parts[n].type) \o <<"_">> \o ToDecimal(n - 1) \o <<"_", "_">>

\* the part of the split text is the placeholder of a recorded node
Created(part) == \E n \in 1..Len(parts) : part = TokenOf(n)

\* out is the parts of the split text in order: its node for the
\* placeholder of a recorded node, itself for a text that is not empty, one
\* node or nothing for any other text of the form of a placeholder
RECURSIVE Resolves(_, _)
Resolves(out, tp) ==
    IF tp = <<>> THEN out = <<>>
    ELSE IF Created(Head(tp))
    THEN /\ out # <<>>
         /\ Head(out) = parts[CHOOSE n \in 1..Len(parts) : Head(tp) = TokenOf(n)]
         /\ Resolves(Tail(out), Tail(tp))
    ELSE IF Head(tp) = <<>> THEN Resolves(out, Tail(tp))
    ELSE IF TokenEnd(Head(tp), 1) = Len(Head(tp))
    THEN Resolves(out, Tail(tp)) \/ (out # <<>> /\ Resolves(Tail(out), Tail(tp)))
    ELSE /\ out # <<>>
         /\ Head(out) = TextNode(Head(tp))
         /\ Resolves(Tail(out), Tail(tp))

\* C26 (as claimed): the counter is the number of recorded nodes whenever a
\* placeholder is made; at the reassembly the placeholder of every recorded
\* node is one of the parts of the split text, and the output is the parts
\* in order, each placeholder resolved to its own node
C26_PlaceholderResolution ==
    /\ ipc # "idle" => key = Len(parts)
    /\ ipc = "done" =>
          /\ \A n \in 1..Len(parts) : \E i \in 1..Len(textParts) : textParts[i] = TokenOf(n)
          /\ Resolves(finalParts, textParts)

\* C27: at most one of the two list accumulators is non-empty in every
\* state, so the final flush emits at most one list block and never two
\* lists in an order other than that of the input
C27_ExclusiveLists ==
    /\ [](currentList = <<>> \/ currentOrderedList = <<>>)
    /\ [][pc = "run" /\ pc' = "done" =>
            /\ Len(elements') <= Len(elements) + 1 + (IF codeBlockContent # <<>> THEN 1 ELSE 0)
            /\ Len(OpenLists) <= 1
            /\ Len(elements') >= Len(elements) + Len(OpenLists)
            /\ SubSeq(elements', 1, Len(elements) + Len(OpenLists)) = elements \o OpenLists]_vars

\* an ordered item came after an unordered one: the unordered list has been
\* emitted and only the ordered accumulator is open
C27_Witness ==
    /\ pc = "run"
    /\ lines = <<L_Item, L_Ordered, L_Item>>
    /\ index = 2
    /\ currentList = <<>>
    /\ currentOrderedList = <<<<"b">>>>
    /\ elements = <<[type |-> "ul", items |-> <<<<"a">>>>]>>

\* C28: while fence mode is open both list accumulators are empty and no
\* line is left to skip; a line in fence mode that is not a delimiter is
\* appended to the code buffer as it is and changes nothing else
C28_FenceFreezes ==
    /\ [](inCodeBlock => currentList = <<>> /\ currentOrderedList = <<>> /\ skipLines = 0)
    /\ [][(pc = "run" /\ index < Len(lines) /\ inCodeBlock /\ ~IsFence(Trim(lines[index + 1]))) =>
            /\ codeBlockContent' = Append(codeBlockContent, lines[index + 1])
            /\ index' = index + 1
            /\ UNCHANGED <<elements, currentList, currentOrderedList, codeLanguage,
                           inCodeBlock, skipLines, pc>>]_vars

\* a fence opened after a list item holds a paragraph line and an ordered
\* item line: the list was emitted at the opening, both lines are in the
\* code buffer and no list is open
C28_Witness ==
    /\ pc = "run"
    /\ lines = <<L_Item, L_FenceJs, L_Para, L_Ordered>>
    /\ index = 4
    /\ inCodeBlock
    /\ codeLanguage = <<"j", "s">>
    /\ codeBlockContent = <<L_Para, L_Ordered>>
    /\ currentList = <<>>
    /\ currentOrderedList = <<>>
    /\ elements = <<[type |-> "ul", items |-> <<<<"a">>>>]>>

\* the lines, in order, that the scan from the current line takes as rows
ScannedRowLines == RowLines(index, ScanStop - index)

\* C29: in the scan that starts at a line, every accepted row has at least
\* 2 cells once padded, the length of each row is the largest of 2, the
\* number of its own cells and the lengths of the rows accepted before it,
\* so the lengths never decrease and the last row is as wide as the widest
C29_RowWidths ==
    (TableTried /\ AcceptedRows # <<>>) =>
        LET rows == AcceptedRows
            own(r) == Len(RowCells(Trim(lines[ScannedRowLines[r] + 1])))
        IN  /\ Len(ScannedRowLines) = Len(rows)
            /\ \A r \in 1..Len(rows) :
                  /\ Len(rows[r]) >= 2
                  /\ Len(rows[r]) >= own(r)
                  /\ \A q \in 1..(r - 1) : Len(rows[r]) >= Len(rows[q])
                  /\ Len(rows[r]) \in {2, own(r)} \cup {Len(rows[q]) : q \in 1..(r - 1)}
                  /\ Len(rows[r]) <= Len(Last(rows))

\* a row of 2 cells, a row of 3 and a row of 1 were accepted: the rows of
\* the table have 2, 3 and 3 cells
C29_Witness ==
    /\ pc = "done"
    /\ lines = <<L_Row2, L_Row3, L_OneCell>>
    /\ Types(elements) = <<"table">>
    /\ AllRows(elements[1]) = <<<<<<"a">>, <<"b">>>>,
                                <<<<"c">>, <<"d">>, <<"e">>>>,
                                <<<<"B", "o", "b">>, <<>>, <<>>>>>>

\* the scan stops at the trimmed line l after the rows: l is not blank, and
\* it is not table-like, or it is no separator line and yields no row
StopsAt(l, rows) ==
    /\ l # <<>>
    /\ \/ ~Includes(l, <<"|">>) /\ ~(Includes(l, <<"-", "-", "-">>) /\ rows # <<>>)
       \/ /\ ~IsSeparator(l)
          /\ Len(RowCells(l)) < 2
          /\ ~(Len(RowCells(l)) >= 1 /\ rows # <<>>)

\* C30: the scan from any line ends: it goes over the lines one by one, each
\* line it passes is blank, a separator line or one accepted row, and it
\* stops at the end of the input or at the first line that is none of
\* these, without reading beyond the input; the number n that parseTable
\* returns is at least 0 and at most the number of lines from the start
\* on, it is the number of lines the scan passed when it is not 0, and it
\* is more than 0 exactly when a row was accepted
C30_ScanBounded ==
    (pc = "run" /\ index < Len(lines)) =>
        LET n == parseTable(lines, index).returned
        IN  /\ ~parseTable(lines, index).threw
            /\ index <= ScanStop /\ ScanStop <= Len(lines)
            /\ Len(ScannedRowLines) = Len(AcceptedRows)
            /\ ScanStop < Len(lines) => StopsAt(Trim(lines[ScanStop + 1]), AcceptedRows)
            /\ 0 <= n /\ n <= Len(lines) - index
            /\ n > 0 <=> AcceptedRows # <<>>
            /\ n > 0 => n = ScanStop - index

\* the scan from the first line passed two rows, a blank line and a
\* separator line and stopped at the quote line: parseTable returned 4 for
\* the 5 lines, the table is emitted and 3 lines are left to skip
C30_Witness ==
    /\ pc = "run"
    /\ lines = <<L_Digits, L_Row2, L_Blank, L_Sep, L_Quote>>
    /\ index = 1
    /\ skipLines = 3
    /\ Types(elements) = <<"table">>
    /\ Len(AllRows(elements[1])) = 2

=============================================================================
